---------------------------- MODULE Spec2Model ----------------------------
(***************************************************************************)
(* A model of ThreadPool (src/thread_pool.h): a fixed set of worker        *)
(* threads that pull std::function tasks from a std::queue guarded by one  *)
(* mutex (oper_lock_) and one condition variable (enable_), with the two   *)
(* atomic flags quit_ and force_.                                          *)
(*                                                                         *)
(* Every thread is a small program counter machine.  One action is one     *)
(* atomic step of the code: an atomic load or store, a mutex acquisition,  *)
(* a condition-variable operation, or a statement executed while the       *)
(* mutex is held.                                                          *)
(***************************************************************************)
EXTENDS Integers, Sequences, FiniteSets

(***************************************************************************)
(* Bounds of the model.                                                    *)
(***************************************************************************)
\* the largest core argument given to the constructor
MaxCore == 2
\* the number of submitting threads; each has one task to commit
NumCallers == 2
\* the non-default value tried for the constructor's max argument
MaxCount == 3
\* the non-default value tried for the constructor's cache argument
MaxCache == 1

Workers == 1..MaxCore
Callers == 1..NumCallers
\* caller c commits task c
Tasks == Callers

\* thread identities, as the owner of the mutex
W(w) == <<"worker", w>>
C(c) == <<"caller", c>>

VARIABLES
    core_, max_, cache_,   \* the constructor's arguments
    quit_, force_,         \* std::atomic<bool> flags
    tasks_,                \* std::queue of tasks, front first
    pool_,                 \* std::vector<std::thread>: the workers created
    oper_lock_,            \* the set of threads that own the mutex
    enable_,               \* the workers blocked inside enable_.wait
    wpc,                   \* each worker's position in the thread lambda
    quit_local,            \* each worker's local `bool quit_` (line 47)
    wtask,                 \* each worker's local `task` (0: empty)
    cpc,                   \* each submitting thread's position in commit
    opc,                   \* the owning thread's position
    oforce,                \* shutdown: the `force` argument
    oidx,                  \* start: `idx`; destructor: position in pool_
    started,               \* whether start() has been called
    future,                \* each packaged task's shared state
    runs                   \* how many times each task has been invoked

vars == <<core_, max_, cache_, quit_, force_, tasks_, pool_, oper_lock_,
          enable_, wpc, quit_local, wtask, cpc, opc, oforce, oidx,
          started, future, runs>>

cfgVars == <<core_, max_, cache_>>
workerVars == <<wpc, quit_local, wtask>>
ownerVars == <<opc, oforce, oidx, started>>
taskVars == <<future, runs>>

(***************************************************************************)
(* Helpers.                                                                *)
(***************************************************************************)
Range(s) == {s[i] : i \in 1..Len(s)}

\* the argument bound into task t: the tasks compute i*i for i = 0, 1, ...
TaskArg(t) == t - 1
\* the callable of the usage example
Compute(i) == i * i

NoFuture == [st |-> "none", v |-> 0]
Pending == [st |-> "pending", v |-> 0]

\* std::packaged_task::operator(): the callable returns (ok) or throws; the
\* value or the exception is stored in the shared state, and nothing escapes
\* to the caller of the task
Invoke(t, ok) ==
    IF ok THEN [st |-> "value", v |-> Compute(TaskArg(t))]
    ELSE [st |-> "exception", v |-> 0]

\* the object is alive: its destructor has not begun
Alive == opc \notin {"dtor_notify", "dtor_join", "gone"}

\* no commit is in progress
NoCommit == \A c \in Callers : cpc[c] \in {"idle", "done"}

(***************************************************************************)
(* ThreadPool::ThreadPool (lines 28-31).  max and cache are left at their  *)
(* defaults, or both are given.                                            *)
(***************************************************************************)
Configs == {<<0, 0>>, <<MaxCount, MaxCache>>}

Init ==
    /\ core_ \in 0..MaxCore
    /\ \E cfg \in Configs : max_ = cfg[1] /\ cache_ = cfg[2]
    /\ quit_ = FALSE
    /\ force_ = FALSE
    /\ tasks_ = <<>>
    /\ pool_ = <<>>
    /\ oper_lock_ = {}
    /\ enable_ = {}
    /\ wpc = [w \in Workers |-> "none"]
    /\ quit_local = [w \in Workers |-> FALSE]
    /\ wtask = [w \in Workers |-> 0]
    /\ cpc = [c \in Callers |-> "idle"]
    /\ opc = "idle"
    /\ oforce = FALSE
    /\ oidx = 0
    /\ started = FALSE
    /\ future = [t \in Tasks |-> NoFuture]
    /\ runs = [t \in Tasks |-> 0]

(***************************************************************************)
(* ThreadPool::start (lines 43-66), the calling thread.  start() is called *)
(* at most once, by the thread that owns the pool.                         *)
(***************************************************************************)
BeginStart ==
    /\ opc = "idle"
    /\ ~started
    /\ started' = TRUE
    /\ opc' = "start_loop"
    /\ oidx' = 0
    /\ UNCHANGED <<cfgVars, quit_, force_, tasks_, pool_, oper_lock_, enable_,
                   workerVars, cpc, oforce, taskVars>>

\* a start() that creates one thread more when max_ allows it
SpawnTowardsMax == IF max_ > core_ THEN core_ + 1 ELSE core_

\* the number of threads start() creates
SpawnLimit == core_

\* one iteration of the for loop: pool_.push_back(std::thread(...)),
\* or the end of the loop
StartSpawn ==
    /\ opc = "start_loop"
    /\ IF oidx < SpawnLimit
       THEN /\ pool_' = Append(pool_, oidx + 1)
            /\ wpc' = [wpc EXCEPT ![oidx + 1] = "capture"]
            /\ oidx' = oidx + 1
            /\ opc' = opc
       ELSE /\ opc' = "idle"
            /\ oidx' = 0
            /\ UNCHANGED <<pool_, wpc>>
    /\ UNCHANGED <<cfgVars, quit_, force_, tasks_, oper_lock_, enable_,
                   quit_local, wtask, cpc, oforce, started, taskVars>>

(***************************************************************************)
(* The worker thread's lambda (lines 45-64).                               *)
(***************************************************************************)
\* a thread start that does not look at force_
WorkerCaptureIgnoresForce(w) ==
    /\ wpc[w] = "capture"
    /\ wpc' = [wpc EXCEPT ![w] = "loop"]
    /\ quit_local' = [quit_local EXCEPT ![w] = FALSE]
    /\ UNCHANGED <<cfgVars, quit_, force_, tasks_, pool_, oper_lock_, enable_,
                   wtask, cpc, ownerVars, taskVars>>

\* line 47, first load: this->force_.load()
WorkerCapture(w) ==
    /\ wpc[w] = "capture"
    /\ IF force_
       THEN /\ wpc' = [wpc EXCEPT ![w] = "capture_quit"]
            /\ UNCHANGED quit_local
       ELSE /\ wpc' = [wpc EXCEPT ![w] = "loop"]
            /\ quit_local' = [quit_local EXCEPT ![w] = FALSE]
    /\ UNCHANGED <<cfgVars, quit_, force_, tasks_, pool_, oper_lock_, enable_,
                   wtask, cpc, ownerVars, taskVars>>

\* line 47, second load: this->quit_.load()
WorkerCaptureQuit(w) ==
    /\ wpc[w] = "capture_quit"
    /\ quit_local' = [quit_local EXCEPT ![w] = quit_]
    /\ wpc' = [wpc EXCEPT ![w] = "loop"]
    /\ UNCHANGED <<cfgVars, quit_, force_, tasks_, pool_, oper_lock_, enable_,
                   wtask, cpc, ownerVars, taskVars>>

\* line 48: the loop condition !quit_ reads the local, and fails
WorkerLoopExit(w) ==
    /\ wpc[w] = "loop"
    /\ quit_local[w]
    /\ wpc' = [wpc EXCEPT ![w] = "exited"]
    /\ UNCHANGED <<cfgVars, quit_, force_, tasks_, pool_, oper_lock_, enable_,
                   quit_local, wtask, cpc, ownerVars, taskVars>>

\* a mutex that is handed to every thread that asks
LockAlwaysFree == TRUE

\* whether the mutex can be acquired
LockFree == oper_lock_ = {}

\* lines 48-51: the loop condition holds; std::unique_lock acquires the mutex
WorkerLock(w) ==
    /\ wpc[w] = "loop"
    /\ ~quit_local[w]
    /\ LockFree
    /\ oper_lock_' = oper_lock_ \cup {W(w)}
    /\ wpc' = [wpc EXCEPT ![w] = "pred"]
    /\ UNCHANGED <<cfgVars, quit_, force_, tasks_, pool_, enable_,
                   quit_local, wtask, cpc, ownerVars, taskVars>>

\* a wait that returns whatever the state of the queue
WaitPredicateAlways == TRUE

\* lines 52-54: the wait predicate
WaitPredicate == quit_ \/ tasks_ # <<>>

\* enable_.wait(lock, pred) evaluates the predicate with the mutex held
WorkerPred(w) ==
    /\ wpc[w] = "pred"
    /\ wpc' = [wpc EXCEPT ![w] = IF WaitPredicate THEN "check" ELSE "wait"]
    /\ UNCHANGED <<cfgVars, quit_, force_, tasks_, pool_, oper_lock_, enable_,
                   quit_local, wtask, cpc, ownerVars, taskVars>>

\* enable_.wait(lock): atomically releases the mutex and blocks
WorkerBlock(w) ==
    /\ wpc[w] = "wait"
    /\ oper_lock_' = oper_lock_ \ {W(w)}
    /\ enable_' = enable_ \cup {w}
    /\ wpc' = [wpc EXCEPT ![w] = "blocked"]
    /\ UNCHANGED <<cfgVars, quit_, force_, tasks_, pool_, quit_local, wtask,
                   cpc, ownerVars, taskVars>>

\* a blocked wait may return without any notification
SpuriousWake(w) ==
    /\ wpc[w] = "blocked"
    /\ w \in enable_
    /\ enable_' = enable_ \ {w}
    /\ wpc' = [wpc EXCEPT ![w] = "woken"]
    /\ UNCHANGED <<cfgVars, quit_, force_, tasks_, pool_, oper_lock_,
                   quit_local, wtask, cpc, ownerVars, taskVars>>

\* a woken wait re-acquires the mutex before the predicate is read again
WorkerRelock(w) ==
    /\ wpc[w] = "woken"
    /\ LockFree
    /\ oper_lock_' = oper_lock_ \cup {W(w)}
    /\ wpc' = [wpc EXCEPT ![w] = "pred"]
    /\ UNCHANGED <<cfgVars, quit_, force_, tasks_, pool_, enable_,
                   quit_local, wtask, cpc, ownerVars, taskVars>>

\* an exit check that does not look at the queue
ExitOnQuit == quit_

\* an exit check that lets a worker go only when the shutdown was forced
ExitOnlyWhenForced == quit_ /\ force_ /\ tasks_ = <<>>

\* line 56: the condition of the in-lock exit
ExitCondition == quit_ /\ tasks_ = <<>>

\* lines 56-58: return (the unique_lock releases the mutex), or go on
WorkerCheck(w) ==
    /\ wpc[w] = "check"
    /\ IF ExitCondition
       THEN /\ wpc' = [wpc EXCEPT ![w] = "exited"]
            /\ oper_lock_' = oper_lock_ \ {W(w)}
       ELSE /\ wpc' = [wpc EXCEPT ![w] = "pop"]
            /\ UNCHANGED oper_lock_
    /\ UNCHANGED <<cfgVars, quit_, force_, tasks_, pool_, enable_,
                   quit_local, wtask, cpc, ownerVars, taskVars>>

\* a pop that leaves the front element in the queue
PoppedKeepsFront(q) == q

\* a queue that gives up its newest entry
PoppedDropsBack(q) == IF q = <<>> THEN <<>> ELSE SubSeq(q, 1, Len(q) - 1)

\* the queue after tasks_.pop()
Popped(q) == IF q = <<>> THEN <<>> ELSE Tail(q)

\* lines 59-60: task = std::move(tasks_.front()); tasks_.pop()
WorkerPop(w) ==
    /\ wpc[w] = "pop"
    /\ wtask' = [wtask EXCEPT ![w] = IF tasks_ = <<>> THEN 0 ELSE Head(tasks_)]
    /\ tasks_' = Popped(tasks_)
    /\ wpc' = [wpc EXCEPT ![w] = "unlock"]
    /\ UNCHANGED <<cfgVars, quit_, force_, pool_, oper_lock_, enable_,
                   quit_local, cpc, ownerVars, taskVars>>

\* line 61: the scope of the unique_lock ends
WorkerUnlock(w) ==
    /\ wpc[w] = "unlock"
    /\ oper_lock_' = oper_lock_ \ {W(w)}
    /\ wpc' = [wpc EXCEPT ![w] = "exec"]
    /\ UNCHANGED <<cfgVars, quit_, force_, tasks_, pool_, enable_,
                   quit_local, wtask, cpc, ownerVars, taskVars>>

\* a task whose exception escapes and ends the thread
AfterTaskEscapes(ok) == IF ok THEN "loop" ELSE "exited"

\* where the worker is after task() has returned: the packaged task lets no
\* exception of the callable escape, so the loop goes on either way
AfterTask(ok) == "loop"

\* line 62: task(), which runs (*task)() of the packaged task; the callable
\* returns or throws
WorkerExec(w) ==
    /\ wpc[w] = "exec"
    /\ wtask[w] \in Tasks
    /\ \E ok \in BOOLEAN :
          /\ future' = [future EXCEPT ![wtask[w]] =
                            IF @ = Pending THEN Invoke(wtask[w], ok) ELSE @]
          /\ wpc' = [wpc EXCEPT ![w] = AfterTask(ok)]
    /\ runs' = [runs EXCEPT ![wtask[w]] = @ + 1]
    /\ wtask' = [wtask EXCEPT ![w] = 0]
    /\ UNCHANGED <<cfgVars, quit_, force_, tasks_, pool_, oper_lock_, enable_,
                   quit_local, cpc, ownerVars>>

(***************************************************************************)
(* ThreadPool::commit (lines 75-90), called by the submitting threads.     *)
(***************************************************************************)
\* a check that rejects only after a forced shutdown
RejectsWhenForced == quit_ /\ force_

\* line 78: the condition under which commit throws
CommitRejects == quit_

\* lines 78-85: the shutdown check; then the packaged task and its future
CommitCheck(c) ==
    /\ cpc[c] = "idle"
    /\ Alive
    /\ IF CommitRejects
       THEN /\ cpc' = [cpc EXCEPT ![c] = "commit_throw"]
            /\ UNCHANGED future
       ELSE /\ future' = [future EXCEPT ![c] = Pending]
            /\ cpc' = [cpc EXCEPT ![c] = "commit_lock"]
    /\ UNCHANGED <<cfgVars, quit_, force_, tasks_, pool_, oper_lock_, enable_,
                   workerVars, ownerVars, runs>>

\* line 80: throw std::runtime_error
CommitThrow(c) ==
    /\ cpc[c] = "commit_throw"
    /\ cpc' = [cpc EXCEPT ![c] = "idle"]
    /\ UNCHANGED <<cfgVars, quit_, force_, tasks_, pool_, oper_lock_, enable_,
                   workerVars, ownerVars, taskVars>>

\* line 86: std::lock_guard acquires the mutex
CommitLock(c) ==
    /\ cpc[c] = "commit_lock"
    /\ LockFree
    /\ oper_lock_' = oper_lock_ \cup {C(c)}
    /\ cpc' = [cpc EXCEPT ![c] = "commit_emplace"]
    /\ UNCHANGED <<cfgVars, quit_, force_, tasks_, pool_, enable_,
                   workerVars, ownerVars, taskVars>>

\* an emplace that waits while the queue holds cache_ tasks
QueueAcceptsBelowCache == cache_ = 0 \/ Len(tasks_) < cache_

\* whether the queue takes one more task
QueueAccepts == TRUE

\* line 87: tasks_.emplace(...)
CommitEmplace(c) ==
    /\ cpc[c] = "commit_emplace"
    /\ QueueAccepts
    /\ tasks_' = Append(tasks_, c)
    /\ cpc' = [cpc EXCEPT ![c] = "commit_notify"]
    /\ UNCHANGED <<cfgVars, quit_, force_, pool_, oper_lock_, enable_,
                   workerVars, ownerVars, taskVars>>

\* a commit that wakes every blocked worker, as notify_all would
CommitNotifyAll(c) ==
    /\ cpc[c] = "commit_notify"
    /\ enable_' = {}
    /\ wpc' = [w \in Workers |-> IF w \in enable_ THEN "woken" ELSE wpc[w]]
    /\ cpc' = [cpc EXCEPT ![c] = "commit_return"]
    /\ UNCHANGED <<cfgVars, quit_, force_, tasks_, pool_, oper_lock_,
                   quit_local, wtask, ownerVars, taskVars>>

\* line 88: enable_.notify_one() unblocks one of the blocked workers, if any
CommitNotify(c) ==
    /\ cpc[c] = "commit_notify"
    /\ IF enable_ = {}
       THEN UNCHANGED <<enable_, wpc>>
       ELSE \E w \in enable_ :
                /\ enable_' = enable_ \ {w}
                /\ wpc' = [wpc EXCEPT ![w] = "woken"]
    /\ cpc' = [cpc EXCEPT ![c] = "commit_return"]
    /\ UNCHANGED <<cfgVars, quit_, force_, tasks_, pool_, oper_lock_,
                   quit_local, wtask, ownerVars, taskVars>>

\* line 89: return result; the lock_guard releases the mutex
CommitReturn(c) ==
    /\ cpc[c] = "commit_return"
    /\ oper_lock_' = oper_lock_ \ {C(c)}
    /\ cpc' = [cpc EXCEPT ![c] = "done"]
    /\ UNCHANGED <<cfgVars, quit_, force_, tasks_, pool_, enable_,
                   workerVars, ownerVars, taskVars>>

(***************************************************************************)
(* ThreadPool::shutdown (lines 68-71), called by the owning thread, any    *)
(* number of times, before or after start().                               *)
(***************************************************************************)
\* a shutdown that stores its argument into quit_
ShutdownStoreQuitSwapped(f) ==
    /\ opc = "idle"
    /\ quit_' = f
    /\ oforce' = f
    /\ opc' = "shutdown_force"
    /\ UNCHANGED <<cfgVars, force_, tasks_, pool_, oper_lock_, enable_,
                   workerVars, cpc, oidx, started, taskVars>>

\* line 69: this->quit_.store(true)
ShutdownStoreQuit(f) ==
    /\ opc = "idle"
    /\ quit_' = TRUE
    /\ oforce' = f
    /\ opc' = "shutdown_force"
    /\ UNCHANGED <<cfgVars, force_, tasks_, pool_, oper_lock_, enable_,
                   workerVars, cpc, oidx, started, taskVars>>

\* a shutdown that ends with enable_.notify_all()
ShutdownStoreForceNotifies ==
    /\ opc = "shutdown_force"
    /\ force_' = oforce
    /\ oforce' = FALSE
    /\ opc' = "idle"
    /\ wpc' = [w \in Workers |-> IF w \in enable_ THEN "woken" ELSE wpc[w]]
    /\ enable_' = {}
    /\ UNCHANGED <<cfgVars, quit_, tasks_, pool_, oper_lock_, quit_local,
                   wtask, cpc, oidx, started, taskVars>>

\* line 70: this->force_.store(force); then shutdown returns
ShutdownStoreForce ==
    /\ opc = "shutdown_force"
    /\ force_' = oforce
    /\ oforce' = FALSE
    /\ opc' = "idle"
    /\ UNCHANGED <<cfgVars, quit_, tasks_, pool_, oper_lock_, enable_,
                   workerVars, cpc, oidx, started, taskVars>>

(***************************************************************************)
(* ThreadPool::~ThreadPool (lines 33-41).  The object is destroyed by the  *)
(* last thread that refers to it: no other call is in progress.            *)
(***************************************************************************)
\* line 34: this->quit_.store(true)
DtorStoreQuit ==
    /\ opc = "idle"
    /\ NoCommit
    /\ quit_' = TRUE
    /\ opc' = "dtor_notify"
    /\ UNCHANGED <<cfgVars, force_, tasks_, pool_, oper_lock_, enable_,
                   workerVars, cpc, oforce, oidx, started, taskVars>>

\* line 35: this->enable_.notify_all() unblocks every blocked worker
DtorNotifyAll ==
    /\ opc = "dtor_notify"
    /\ wpc' = [w \in Workers |-> IF w \in enable_ THEN "woken" ELSE wpc[w]]
    /\ enable_' = {}
    /\ opc' = "dtor_join"
    /\ oidx' = 0
    /\ UNCHANGED <<cfgVars, quit_, force_, tasks_, pool_, oper_lock_,
                   quit_local, wtask, cpc, oforce, started, taskVars>>

\* a join that returns without waiting for the thread
JoinedAtOnce(w) == TRUE

\* t.join() returns once thread w has finished
Joined(w) == wpc[w] = "exited"

\* lines 36-40: the for_each joins the threads of pool_ in order
DtorJoin ==
    /\ opc = "dtor_join"
    /\ oidx < Len(pool_)
    /\ Joined(pool_[oidx + 1])
    /\ oidx' = oidx + 1
    /\ UNCHANGED <<cfgVars, quit_, force_, tasks_, pool_, oper_lock_, enable_,
                   workerVars, cpc, opc, oforce, started, taskVars>>

\* line 41: the destructor returns
DtorReturn ==
    /\ opc = "dtor_join"
    /\ oidx = Len(pool_)
    /\ opc' = "gone"
    /\ oidx' = 0
    /\ UNCHANGED <<cfgVars, quit_, force_, tasks_, pool_, oper_lock_, enable_,
                   workerVars, cpc, oforce, started, taskVars>>

(***************************************************************************)
(* The specification.                                                      *)
(***************************************************************************)
WorkerStep(w) ==
    \/ WorkerCapture(w)
    \/ WorkerCaptureQuit(w)
    \/ WorkerLoopExit(w)
    \/ WorkerLock(w)
    \/ WorkerPred(w)
    \/ WorkerBlock(w)
    \/ WorkerRelock(w)
    \/ WorkerCheck(w)
    \/ WorkerPop(w)
    \/ WorkerUnlock(w)
    \/ WorkerExec(w)

\* the steps of a commit that has passed or failed its check
CommitStep(c) ==
    \/ CommitThrow(c)
    \/ CommitLock(c)
    \/ CommitEmplace(c)
    \/ CommitNotify(c)
    \/ CommitReturn(c)

\* the steps of the owner's call in progress
OwnerStep ==
    \/ StartSpawn
    \/ ShutdownStoreForce
    \/ DtorNotifyAll
    \/ DtorJoin
    \/ DtorReturn

\* the first step of a call: the thread decides to make it
CallBegin ==
    \/ BeginStart
    \/ \E f \in BOOLEAN : ShutdownStoreQuit(f)
    \/ DtorStoreQuit
    \/ \E c \in Callers : CommitCheck(c)

Next ==
    \/ \E w \in Workers : WorkerStep(w)
    \/ \E w \in Workers : SpuriousWake(w)
    \/ \E c \in Callers : CommitStep(c)
    \/ OwnerStep
    \/ CallBegin

Spec == Init /\ [][Next]_vars

(***************************************************************************)
(* Fairness: every thread that can take a step of the call it is in        *)
(* eventually takes it, and a thread that asks for the mutex again and     *)
(* again eventually gets it.  Nothing makes a thread begin a call, and     *)
(* nothing makes a blocked wait return without a notification.             *)
(***************************************************************************)
WorkerRun(w) ==
    \/ WorkerCapture(w)
    \/ WorkerCaptureQuit(w)
    \/ WorkerLoopExit(w)
    \/ WorkerPred(w)
    \/ WorkerBlock(w)
    \/ WorkerCheck(w)
    \/ WorkerPop(w)
    \/ WorkerUnlock(w)
    \/ WorkerExec(w)

CommitRun(c) ==
    \/ CommitThrow(c)
    \/ CommitEmplace(c)
    \/ CommitNotify(c)
    \/ CommitReturn(c)

Fairness ==
    /\ \A w \in Workers : WF_vars(WorkerRun(w))
    /\ \A w \in Workers : SF_vars(WorkerLock(w) \/ WorkerRelock(w))
    /\ \A c \in Callers : WF_vars(CommitRun(c))
    /\ \A c \in Callers : SF_vars(CommitLock(c))
    /\ WF_vars(OwnerStep)

LiveSpec == Init /\ [][Next]_vars /\ Fairness

(***************************************************************************)
(* Vocabulary of the properties.                                           *)
(***************************************************************************)
\* the commit of task t has appended it to the queue
Appended(t) == cpc[t] \in {"commit_notify", "commit_return", "done"}
\* the commit of task t has returned its future
Returned(t) == cpc[t] = "done"
\* the future of task t holds a value or an exception
Resolved(t) == future[t].st \in {"value", "exception"}
\* how many times t occurs in the queue
InQueue(t) == Cardinality({i \in 1..Len(tasks_) : tasks_[i] = t})
\* the workers that hold t in their local `task`
Holders(t) == {w \in Workers : wtask[w] = t}
\* the threads of pool_
Created == Range(pool_)
AllExited == \A w \in Created : wpc[w] = "exited"
\* start() has returned
StartReturned == started /\ opc # "start_loop"
\* the positions of a worker at which it owns the mutex
WorkerLocked == {"pred", "wait", "check", "pop", "unlock"}
\* the positions of a commit at which it owns the mutex
CommitLocked == {"commit_emplace", "commit_notify", "commit_return"}

(***************************************************************************)
(* C1.  No task loss or duplication: a task appended by a commit is at     *)
(* every moment in exactly one place (once in the queue, or held by one    *)
(* worker that dequeued it, or finished after one execution), and a task   *)
(* that was not appended is nowhere.                                       *)
(***************************************************************************)
NoLossNoDuplication ==
    \A t \in Tasks :
        /\ runs[t] <= 1
        /\ InQueue(t) + Cardinality(Holders(t)) + runs[t]
               = (IF Appended(t) THEN 1 ELSE 0)
        /\ runs[t] = 1 <=> Resolved(t)

\* two workers execute two different tasks at the same time, both appended
\* by commits that have returned
TwoWorkersTwoTasks ==
    \E w1, w2 \in Workers : \E t1, t2 \in Tasks :
        /\ w1 # w2 /\ t1 # t2
        /\ wpc[w1] = "exec" /\ wtask[w1] = t1 /\ Returned(t1)
        /\ wpc[w2] = "exec" /\ wtask[w2] = t2 /\ Returned(t2)

(***************************************************************************)
(* C2.  Graceful draining: once start() has returned on a pool of at least *)
(* one worker and a commit has returned the future of task t while no      *)
(* shutdown has been requested, t is eventually executed and its future    *)
(* resolved, whether or not shutdown(false) is then called, short of a     *)
(* forced shutdown being requested; and a worker that entered its loop     *)
(* leaves it only when the queue is empty.                                 *)
(***************************************************************************)
GracefulDrain ==
    /\ \A t \in Tasks :
           (StartReturned /\ core_ >= 1 /\ ~quit_ /\ Returned(t))
               ~> (Resolved(t) \/ force_)
    /\ [][\A w \in Workers :
              (wpc[w] \in WorkerLocked /\ wpc'[w] = "exited")
                  => tasks_ = <<>>]_vars

\* graceful shutdown has returned while a task waits in the queue, the
\* workers go on: one is executing, and afterwards every task is resolved
\* with the square it computes
DrainingAfterShutdown ==
    /\ quit_ /\ ~force_ /\ opc = "idle" /\ core_ = MaxCore
    /\ tasks_ # <<>>
    /\ \E w \in Workers : wpc[w] = "exec"
    /\ \A t \in Tasks : Returned(t)

(***************************************************************************)
(* C3.  Forced shutdown abandons pending work: while a forced shutdown is  *)
(* in effect (quit_ and force_ are both set), a worker that makes its exit *)
(* check does not go on to take a task from the queue.                     *)
(***************************************************************************)
ForcedShutdownAbandons ==
    [][(quit_ /\ force_) =>
           \A w \in Workers : wpc[w] = "check" => wpc'[w] # "pop"]_vars

(***************************************************************************)
(* C4.  Post-shutdown submission rejection: a commit that begins once      *)
(* quit_ is set (so every commit that begins after a shutdown call has     *)
(* returned) goes to the throw and nowhere else, and neither its check nor *)
(* its throw changes the queue, the blocked workers, any worker's position *)
(* or any future.                                                          *)
(***************************************************************************)
PostShutdownRejects ==
    [][\A c \in Callers :
          /\ (cpc[c] = "idle" /\ quit_ /\ cpc'[c] # "idle")
                 => /\ cpc'[c] = "commit_throw"
                    /\ UNCHANGED <<tasks_, enable_, wpc, future, oper_lock_>>
          /\ (cpc[c] = "commit_throw" /\ cpc'[c] # "commit_throw")
                 => /\ cpc'[c] = "idle"
                    /\ UNCHANGED <<tasks_, enable_, wpc, future, oper_lock_>>
      ]_vars

\* a commit is about to throw after a forced shutdown has returned on a
\* started pool with a blocked worker, which stays blocked
ThrowAfterShutdown ==
    /\ quit_ /\ force_ /\ opc = "idle" /\ started
    /\ enable_ # {}
    /\ \E c \in Callers : cpc[c] = "commit_throw" /\ future[c] = NoFuture

(***************************************************************************)
(* C5.  Shutdown wakes all workers: when a shutdown call returns, no       *)
(* worker is left blocked in the wait; and once shutdown has returned with *)
(* the queue empty and no commit in progress, every worker eventually      *)
(* exits.                                                                  *)
(***************************************************************************)
ShutdownWakesAll ==
    /\ [][(opc = "shutdown_force" /\ opc' = "idle") => enable_' = {}]_vars
    /\ (quit_ /\ opc = "idle" /\ tasks_ = <<>> /\ NoCommit) ~> AllExited

(***************************************************************************)
(* C6.  Teardown joins all workers: whenever the destructor has returned,  *)
(* quit_ is set, no worker is blocked in the wait, and every thread that   *)
(* start created has left its loop.                                        *)
(***************************************************************************)
TeardownJoinsAll ==
    opc = "gone" =>
        /\ quit_
        /\ enable_ = {}
        /\ \A i \in 1..Len(pool_) : wpc[pool_[i]] = "exited"
        /\ \A w \in Workers : wpc[w] \in {"none", "exited"}

\* the destructor has returned on a pool of MaxCore workers that ran a task
TornDownAfterWork ==
    /\ opc = "gone"
    /\ Len(pool_) = MaxCore
    /\ \E t \in Tasks : runs[t] = 1

(***************************************************************************)
(* C7.  A worker survives a failing task: the step in which a task's       *)
(* callable throws stores the exception in the task's future and leaves    *)
(* the worker in its loop, with its loop condition still true, from where  *)
(* it locks the mutex and waits for work like after a task that returned.  *)
(***************************************************************************)
WorkerSurvivesFailure ==
    [][\A w \in Workers :
          (wpc[w] = "exec" /\ wpc'[w] # "exec")
              => /\ future'[wtask[w]].st \in {"value", "exception"}
                 /\ wpc'[w] = "loop"
                 /\ ~quit_local'[w]
                 /\ W(w) \notin oper_lock_'
      ]_vars

\* the only worker of the pool has run a task that threw and is now
\* executing another one
SurvivorExecutes ==
    /\ core_ = 1
    /\ \E t1, t2 \in Tasks :
           /\ t1 # t2
           /\ future[t1].st = "exception"
           /\ wpc[1] = "exec" /\ wtask[1] = t2

MutexDiscipline ==
    /\ Cardinality(oper_lock_) <= 1
    /\ \A w \in Workers :
           /\ wpc[w] = "exec" => W(w) \notin oper_lock_
           /\ W(w) \in oper_lock_ <=> wpc[w] \in WorkerLocked
    /\ \A c \in Callers :
           C(c) \in oper_lock_ <=> cpc[c] \in CommitLocked

\* a worker executes a task while a commit owns the mutex and appends
ExecutingWhileCommitAppends ==
    /\ \E w \in Workers : wpc[w] = "exec"
    /\ \E c \in Callers : cpc[c] = "commit_emplace" /\ oper_lock_ = {C(c)}

(***************************************************************************)
(* C11.  The queue is first-in first-out: a step that changes the queue    *)
(* either appends one task at the back or removes the front task, which    *)
(* the removing worker takes; so a task never leaves the queue while a     *)
(* task appended before it is still queued, and the tasks that stay keep   *)
(* their order.                                                            *)
(***************************************************************************)
FifoDequeueOrder ==
    [][/\ \/ tasks_' = tasks_
          \/ \E c \in Callers : tasks_' = Append(tasks_, c)
          \/ /\ tasks_ # <<>>
             /\ tasks_' = Tail(tasks_)
             /\ \E w \in Workers :
                    /\ wpc[w] = "pop"
                    /\ wtask'[w] = Head(tasks_)
       /\ \A i, j \in 1..Len(tasks_) :
              (i < j /\ tasks_[j] \notin Range(tasks_'))
                  => tasks_[i] \notin Range(tasks_')]_vars

\* a worker has just taken the front task of a queue of two, still owns the
\* mutex, and the task appended later is the one left in the queue
FrontTakenBackQueued ==
    \E w \in Workers :
        /\ wpc[w] = "unlock"
        /\ wtask[w] \in Tasks
        /\ Len(tasks_) = 1
        /\ tasks_[1] # wtask[w]
        /\ cpc[wtask[w]] = "done"

SingleWakeOnCommit ==
    [][\A c \in Callers :
          /\ (cpc[c] = "commit_emplace" /\ cpc'[c] # "commit_emplace") =>
                 /\ C(c) \in oper_lock_
                 /\ tasks_' = Append(tasks_, c)
                 /\ cpc'[c] = "commit_notify"
          /\ (cpc[c] = "commit_notify" /\ cpc'[c] # "commit_notify") =>
                 /\ C(c) \in oper_lock_ /\ C(c) \in oper_lock_'
                 /\ tasks_' = tasks_
                 /\ enable_' \subseteq enable_
                 /\ Cardinality(enable_ \ enable_') =
                        IF enable_ = {} THEN 0 ELSE 1
                 /\ \A w \in Workers :
                        IF w \in enable_ \ enable_'
                        THEN wpc'[w] = "woken"
                        ELSE wpc'[w] = wpc[w]
          /\ (cpc'[c] # cpc[c] /\ cpc[c] # "commit_notify") =>
                 enable_' = enable_]_vars

\* a commit has notified with two workers blocked: one is woken, the other
\* is still blocked, and the committing thread still owns the mutex
OneWokenOneStillBlocked ==
    \E c \in Callers, w, v \in Workers :
        /\ cpc[c] = "commit_return" /\ oper_lock_ = {C(c)}
        /\ wpc[w] = "woken" /\ wpc[v] = "blocked" /\ enable_ = {v}
        /\ tasks_ = <<c>>

(***************************************************************************)
(* C14.  Teardown terminates: on a started pool, once the destructor has   *)
(* stored the shutdown flag (no commit is in progress, every task returns) *)
(* every worker eventually exits and the destructor eventually returns,    *)
(* however its flag store and notify_all interleave with a worker's        *)
(* predicate check and block.                                              *)
(***************************************************************************)
TeardownTerminates ==
    (started /\ opc = "dtor_notify") ~> (AllExited /\ opc = "gone")

(***************************************************************************)
(* The runs in which start() is called first: until start() has returned   *)
(* no commit begins and neither shutdown nor the destructor stores quit_.  *)
(***************************************************************************)
StartFirstNext ==
    \/ \E w \in Workers : WorkerStep(w)
    \/ \E w \in Workers : SpuriousWake(w)
    \/ \E c \in Callers : CommitStep(c)
    \/ OwnerStep
    \/ BeginStart
    \/ StartReturned /\ \E f \in BOOLEAN : ShutdownStoreQuit(f)
    \/ StartReturned /\ DtorStoreQuit
    \/ StartReturned /\ \E c \in Callers : CommitCheck(c)

StartFirstSpec == Init /\ [][StartFirstNext]_vars

(***************************************************************************)
(* C15.  No task is stranded behind exited workers: on a pool with at      *)
(* least one worker, started before any commit or shutdown, whenever all   *)
(* the workers have exited (each of them at the check under the mutex) the *)
(* queue is empty, also when a shutdown falls between the shutdown check   *)
(* of a commit and its append.                                             *)
(***************************************************************************)
NoTaskStranded ==
    (/\ StartReturned
     /\ Created # {}
     /\ \A w \in Created : wpc[w] = "exited" /\ ~quit_local[w])
        => tasks_ = <<>>

(***************************************************************************)
(* C16.  A worker never dequeues from an empty queue: a worker about to    *)
(* take the front task finds the queue non-empty, and a worker that has    *)
(* taken one holds a committed task; a worker that has left its wait, and  *)
(* until it has popped or exited, sees the queue non-empty or the shutdown *)
(* requested.                                                              *)
(***************************************************************************)
NeverDequeuesEmpty ==
    \A w \in Workers :
        /\ wpc[w] = "pop" => tasks_ # <<>>
        /\ wpc[w] \in {"unlock", "exec"} => wtask[w] \in Tasks
        /\ wpc[w] \in {"check", "pop"} => (quit_ \/ tasks_ # <<>>)

\* both workers were woken for one queued task: one is about to pop it, the
\* other has not got the mutex back yet and will find the queue empty
TwoWokenForOneTask ==
    \E w, v \in Workers :
        /\ wpc[w] = "pop" /\ Len(tasks_) = 1
        /\ wpc[v] = "woken"
        /\ ~quit_

(***************************************************************************)
(* C17.  The shutdown request is monotonic: once quit_ is true no step of  *)
(* any thread makes it false again, and quit_ changes only in the store of *)
(* shutdown or of the destructor.                                          *)
(***************************************************************************)
QuitMonotonic ==
    [][/\ quit_ => quit_'
       /\ quit_' # quit_ => opc' \in {"shutdown_force", "dtor_notify"}]_vars

\* after a forced shutdown has returned, a second call shutdown(false) has
\* stored quit_ again and is about to clear force_, while a worker is past
\* its wait
SecondShutdownUnforced ==
    /\ opc = "shutdown_force" /\ ~oforce
    /\ force_ /\ quit_
    /\ \E w \in Workers : wpc[w] \in {"check", "pop", "unlock", "exec"}

ShutdownFrame ==
    [][/\ (opc = "idle" /\ opc' = "shutdown_force") =>
              /\ quit_'
              /\ UNCHANGED <<force_, tasks_, pool_, workerVars, enable_,
                             oper_lock_, cpc, taskVars, cfgVars>>
       /\ (opc = "shutdown_force" /\ opc' # "shutdown_force") =>
              /\ force_' = oforce
              /\ opc' = "idle"
              /\ UNCHANGED <<quit_, tasks_, pool_, workerVars, enable_,
                             oper_lock_, cpc, taskVars, cfgVars>>
       /\ opc = "idle" => \A f \in BOOLEAN : ENABLED ShutdownStoreQuit(f)
       /\ opc = "shutdown_force" => ENABLED ShutdownStoreForce]_vars

\* a forced shutdown is between its two stores while a committing thread
\* owns the mutex, a task is queued and a worker is blocked
ShutdownBesideLockedCommit ==
    /\ opc = "shutdown_force" /\ oforce
    /\ \E c \in Callers : oper_lock_ = {C(c)}
    /\ tasks_ # <<>>
    /\ enable_ # {}

=============================================================================
